---- MODULE Spec2Model ----
(***************************************************************************)
(* A model of the PtrHash-style perfect hash construction of rust-phf:     *)
(*   phf_generator/src/ptrhash.rs  (the solver, generate_hash),            *)
(*   phf_shared/src/ptrhash.rs     (the lookup, get_index),                *)
(*   phf_codegen/src/lib.rs        (the Map / OrderedMap builders).        *)
(*                                                                         *)
(* 64-bit words are sequences of 8 bytes, least significant byte first,    *)
(* because the integers of the model checker are narrower than u64.  All   *)
(* wrapping arithmetic (add, multiply, shift, xor, and) is done on bytes   *)
(* and is exact modulo 2^64.  Quantities the program keeps in u32 / usize  *)
(* (bucket and slot counts, indices, pilots) are small naturals here; they *)
(* are turned into bytes wherever the code does bit operations on them.    *)
(***************************************************************************)
EXTENDS Integers, Sequences, FiniteSets, TLC

(***************************************************************************)
(* Bounds of the model.                                                    *)
(***************************************************************************)
\* the longest key slice handed to the solver
MaxN == 4
\* keys are drawn from 1..MaxKey
MaxKey == 5
\* the pseudo random generator of the seed loop is a finite state machine:
\* its output repeats after SeedPeriod draws
SeedPeriod == 2
\* a builder takes at most MaxEntries entries, of keys 1..MaxBuildKey
MaxEntries == 3
MaxBuildKey == 3
\* the longest slice with repeated keys handed to the solver directly
MaxDirectN == 2
\* the keys of those slices are 1..MaxDirectKey
MaxDirectKey == 2
\* the slices of the solver's runs looked at trial by trial: those of one
\* bucket have keys out of 1..MaxOneBucketKey, those of more buckets at most
\* MaxSolveN keys out of 1..MaxSolveKey
MaxOneBucketKey == 5
MaxSolveN == 4
MaxSolveKey == 6
\* the longest slots_map handed to build_remap_and_map on its own
MaxSlots == 5

(***************************************************************************)
(* Program constants (phf_generator/src/ptrhash.rs, lines 8-11).           *)
(***************************************************************************)
FIXED_SEED == 1234567890
DEFAULT_BUCKET_SIZE == 3
MAX_PILOT_TRIES == 8192
\* DEFAULT_ALPHA = 0.85 as the fraction ALPHA_NUM / ALPHA_DEN
ALPHA_NUM == 17
ALPHA_DEN == 20

(***************************************************************************)
(* Option<T>: None is the empty set, Some(x) the singleton {x}.            *)
(***************************************************************************)
None == {}
Some(x) == {x}
is_some(o) == o # {}
unwrap(o) == CHOOSE x \in o : TRUE

(***************************************************************************)
(* Byte arithmetic.  An operand that is used more than once is first bound *)
(* to a name ({e(a) : a \in {x}} has the one element e(x)), so that it is  *)
(* evaluated a single time.                                                *)
(***************************************************************************)
RECURSIVE BitXor(_, _, _)
BitXor(a, b, n) ==
    IF n = 0 THEN 0
    ELSE ((a + b) % 2) + 2 * BitXor(a \div 2, b \div 2, n - 1)

RECURSIVE BitAnd(_, _, _)
BitAnd(a, b, n) ==
    IF n = 0 THEN 0
    ELSE ((a % 2) * (b % 2)) + 2 * BitAnd(a \div 2, b \div 2, n - 1)

\* tables over nibbles, evaluated once
NibXor == [a \in 0..15 |-> [b \in 0..15 |-> BitXor(a, b, 4)]]
NibAnd == [a \in 0..15 |-> [b \in 0..15 |-> BitAnd(a, b, 4)]]
ByteXor(a, b) == 16 * NibXor[a \div 16][b \div 16] + NibXor[a % 16][b % 16]
ByteAnd(a, b) == 16 * NibAnd[a \div 16][b \div 16] + NibAnd[a % 16][b % 16]

\* the k low bytes of the natural n, least significant first (n as a k-byte word)
RECURSIVE FromNat(_, _)
FromNat(n, k) ==
    IF k = 0 THEN <<>>
    ELSE unwrap({<<m % 256>> \o FromNat(m \div 256, k - 1) : m \in {n}})

\* the natural a little-endian word stands for (it must fit the model's integers)
RECURSIVE ToNat(_)
ToNat(w) ==
    unwrap({IF v = <<>> THEN 0 ELSE Head(v) + 256 * ToNat(Tail(v)) : v \in {w}})

\* 2^n for n in 0..8
RECURSIVE Pow2(_)
Pow2(n) == IF n = 0 THEN 1 ELSE 2 * Pow2(n - 1)

\* byte i of the 64-bit word x, 0 above its width
ByteAt(x, i) == IF i > 8 THEN 0 ELSE x[i]

\* column sums -> bytes, carries propagated, truncated to n bytes
RECURSIVE Carry(_, _, _, _)
Carry(cols, i, c, n) ==
    IF i > n THEN <<>>
    ELSE unwrap({<<t % 256>> \o Carry(cols, i + 1, t \div 256, n) : t \in {cols[i] + c}})

\* column k of the schoolbook product of x and y
RECURSIVE ColSum(_, _, _, _)
ColSum(x, y, k, i) ==
    IF i > k THEN 0
    ELSE ByteAt(x, i) * ByteAt(y, k + 1 - i) + ColSum(x, y, k, i + 1)

\* x.wrapping_add(y) on u64
Add64(x, y) ==
    unwrap({Carry(cols, 1, 0, 8) :
            cols \in {<<a[1] + b[1], a[2] + b[2], a[3] + b[3], a[4] + b[4],
                        a[5] + b[5], a[6] + b[6], a[7] + b[7], a[8] + b[8]>> :
                      a \in {x}, b \in {y}}})
\* x.wrapping_mul(y) on u64
Mul64(x, y) ==
    unwrap({Carry(cols, 1, 0, 8) :
            cols \in {<<ColSum(a, b, 1, 1), ColSum(a, b, 2, 1), ColSum(a, b, 3, 1),
                        ColSum(a, b, 4, 1), ColSum(a, b, 5, 1), ColSum(a, b, 6, 1),
                        ColSum(a, b, 7, 1), ColSum(a, b, 8, 1)>> :
                      a \in {x}, b \in {y}}})
\* the full product of two u64 as u128 (16 bytes, no overflow)
MulWide(x, y) ==
    unwrap({Carry(cols, 1, 0, 16) :
            cols \in {<<ColSum(a, b, 1, 1), ColSum(a, b, 2, 1), ColSum(a, b, 3, 1),
                        ColSum(a, b, 4, 1), ColSum(a, b, 5, 1), ColSum(a, b, 6, 1),
                        ColSum(a, b, 7, 1), ColSum(a, b, 8, 1), ColSum(a, b, 9, 1),
                        ColSum(a, b, 10, 1), ColSum(a, b, 11, 1), ColSum(a, b, 12, 1),
                        ColSum(a, b, 13, 1), ColSum(a, b, 14, 1), ColSum(a, b, 15, 1),
                        ColSum(a, b, 16, 1)>> :
                      a \in {x}, b \in {y}}})
\* x ^ y on u64
Xor64(x, y) ==
    unwrap({<<ByteXor(a[1], b[1]), ByteXor(a[2], b[2]), ByteXor(a[3], b[3]),
              ByteXor(a[4], b[4]), ByteXor(a[5], b[5]), ByteXor(a[6], b[6]),
              ByteXor(a[7], b[7]), ByteXor(a[8], b[8])>> : a \in {x}, b \in {y}})
\* x >> k on u64, 0 < k < 64
ShrByte(x, i, q, lo, hi) ==
    (ByteAt(x, i + q) \div lo + ByteAt(x, i + q + 1) * hi) % 256
Shr64(x, k) ==
    unwrap({<<ShrByte(a, 1, q, lo, hi), ShrByte(a, 2, q, lo, hi),
              ShrByte(a, 3, q, lo, hi), ShrByte(a, 4, q, lo, hi),
              ShrByte(a, 5, q, lo, hi), ShrByte(a, 6, q, lo, hi),
              ShrByte(a, 7, q, lo, hi), ShrByte(a, 8, q, lo, hi)>> :
            a \in {x}, q \in {k \div 8}, lo \in {Pow2(k % 8)},
            hi \in {Pow2(8 - (k % 8))}})
\* x as u32: the four low bytes
AsU32(x) == <<x[1], x[2], x[3], x[4]>>
\* x & y on u32
And32(x, y) ==
    unwrap({<<ByteAnd(a[1], b[1]), ByteAnd(a[2], b[2]),
              ByteAnd(a[3], b[3]), ByteAnd(a[4], b[4])>> : a \in {x}, b \in {y}})

\* 0x9e3779b97f4a7c15, 0xbf58476d1ce4e5b9, 0x94d049bb133111eb
SM_GAMMA == <<21, 124, 74, 127, 185, 121, 55, 158>>
SM_MUL1 == <<185, 229, 228, 28, 109, 71, 88, 191>>
SM_MUL2 == <<235, 17, 49, 19, 187, 73, 208, 148>>

(***************************************************************************)
(* phf_shared/src/ptrhash.rs: the lookup side.                             *)
(***************************************************************************)
splitmix64(x0) ==
    unwrap({Xor64(z2, Shr64(z2, 31)) :
            z2 \in {Mul64(Xor64(z1, Shr64(z1, 27)), SM_MUL2) :
                    z1 \in {Mul64(Xor64(x, Shr64(x, 30)), SM_MUL1) :
                            x \in {Add64(x0, SM_GAMMA)}}}})

\* a variant of mix_pilot that leaves the seed out
mix_pilot_unseeded(pilot, seed) == splitmix64(FromNat(pilot, 8))

\* pilot: u16, seed: u64
mix_pilot(pilot, seed) == splitmix64(Xor64(seed, FromNat(pilot, 8)))

\* ((hash as u128 * n as u128) >> 64) as u32
fast_reduce(h, n) == ToNat(SubSeq(MulWide(h, FromNat(n, 8)), 9, 12))


\* a variant of reduce_pow2 that masks with n, not n - 1
reduce_pow2_mask_n(h, n) == ToNat(And32(AsU32(h), FromNat(n, 4)))
\* (hash as u32) & (n - 1)
reduce_pow2(h, n) == ToNat(And32(AsU32(h), FromNat(n - 1, 4)))

\* The default hash: SipHash-1-3 of the key's bytes under the keys (0, seed),
\* its 128-bit digest split into (h1, h2).  SipHash is code of another crate;
\* it is modelled by a keyed mixing function of the same shape, a pure
\* function of key and seed: the key x is fed as the 8 bytes x, x (two u32)
\* for h2 and as the u64 x for h1.
hash(x, key) ==
    [h1 |-> splitmix64(Xor64(FromNat(x, 8), key)),
     h2 |-> splitmix64(Xor64(FromNat(x, 4) \o FromNat(x, 4), key))]

\* What get_index yields when an index is past the end of pilots or remap
\* (the access panics); every index it returns is a natural.
OutOfBounds == 0 - 1


\* a variant of get_index that folds a slot past the dense range with a
\* remainder, not through remap
get_index_no_remap(hashes, key, buckets, slots, pilots, remap, len) ==
    IF buckets = 0 THEN 0
    ELSE LET bucket == fast_reduce(hashes.h1, buckets)
             pilot == pilots[bucket + 1]
             mixed == Xor64(hashes.h2, mix_pilot(pilot, key))
         IN  reduce_pow2(mixed, slots) % len
\* pilots and remap are sequences: the element at Rust index i is at i + 1.
get_index(hashes, key, buckets, slots, pilots, remap, len) ==
    IF buckets = 0 THEN 0
    ELSE LET bucket == fast_reduce(hashes.h1, buckets)
         IN  IF bucket >= Len(pilots) THEN OutOfBounds
             ELSE LET pilot == pilots[bucket + 1]
                      mixed == Xor64(hashes.h2, mix_pilot(pilot, key))
                      slot == reduce_pow2(mixed, slots)
                  IN  IF slot < len THEN slot
                      ELSE IF slot - len >= Len(remap) THEN OutOfBounds
                      ELSE remap[slot - len + 1]

(***************************************************************************)
(* phf_generator/src/ptrhash.rs: the solver's private helpers.  The file   *)
(* carries its own copies of the mixers; they are modelled separately so   *)
(* that the agreement of builder and lookup is checked, not assumed.       *)
(***************************************************************************)
gen_splitmix64(x0) ==
    unwrap({Xor64(z2, Shr64(z2, 31)) :
            z2 \in {Mul64(Xor64(z1, Shr64(z1, 27)), SM_MUL2) :
                    z1 \in {Mul64(Xor64(x, Shr64(x, 30)), SM_MUL1) :
                            x \in {Add64(x0, SM_GAMMA)}}}})

gen_mix_pilot(pilot, seed) == gen_splitmix64(Xor64(seed, FromNat(pilot, 8)))

gen_fast_reduce(h, n) == ToNat(SubSeq(MulWide(h, FromNat(n, 8)), 9, 12))

gen_reduce_pow2(h, n) == ToNat(And32(AsU32(h), FromNat(n - 1, 4)))

Max(a, b) == IF a >= b THEN a ELSE b


\* a variant of bucket_count that rounds down
bucket_count_floor(len) == Max(len \div DEFAULT_BUCKET_SIZE, 1)
\* (len + DEFAULT_BUCKET_SIZE - 1) / DEFAULT_BUCKET_SIZE, at least 1
bucket_count(len) ==
    Max((len + DEFAULT_BUCKET_SIZE - 1) \div DEFAULT_BUCKET_SIZE, 1)

\* usize::next_power_of_two: the smallest power of two >= n (1 for n = 0)
RECURSIVE NextPow2From(_, _)
NextPow2From(p, n) == IF p >= n THEN p ELSE NextPow2From(2 * p, n)
next_power_of_two(n) == NextPow2From(1, n)

\* ((len as f64) / 0.85).ceil(): for the lengths of the model the quotient
\* len / 0.85 = 20 len / 17 is either an integer that f64 division yields
\* exactly or at least 1/17 away from one, so the ceiling is that of the
\* exact fraction.
CeilDivAlpha(len) == (len * ALPHA_DEN + ALPHA_NUM - 1) \div ALPHA_NUM

\* a variant of slot_count that leaves the load factor out
slot_count_no_load(len) == next_power_of_two(Max(len, 1))

slot_count(len) ==
    next_power_of_two(Max(CeilDivAlpha(len), Max(len, 1)))

(***************************************************************************)
(* The seed generator (fastrand's Rng, code of another crate): a           *)
(* deterministic generator whose whole future is fixed by the seed it is   *)
(* built with.  It is modelled as a counter whose value is mixed on every  *)
(* draw; the counter wraps after SeedPeriod draws (the crate's 64-bit      *)
(* state wraps too, after 2^64).                                           *)
(***************************************************************************)
RngWithSeed(s) == [seed |-> s, n |-> 0]
\* the value the next draw yields, and the generator after the draw
RngU64(r) == gen_splitmix64(FromNat(r.seed + r.n + 1, 8))
RngAdvance(r) == [r EXCEPT !.n = (r.n + 1) % SeedPeriod]
\* no generator has been built
NoRng == [seed |-> 0, n |-> 0]

\* The seeds a generator built with FIXED_SEED yields, and the mixer of every
\* pilot under each of them, evaluated once (tables of RngU64 and of
\* gen_mix_pilot, nothing else).
RECURSIVE RngAfter(_, _)
RngAfter(r, n) == IF n = 0 THEN r ELSE RngAfter(RngAdvance(r), n - 1)
SeedTable ==
    [n \in 0..(SeedPeriod - 1) |-> RngU64(RngAfter(RngWithSeed(FIXED_SEED), n))]
MixTable ==
    [k \in 0..(SeedPeriod * (MAX_PILOT_TRIES + 1) - 1) |->
        gen_mix_pilot(k % (MAX_PILOT_TRIES + 1), SeedTable[k \div (MAX_PILOT_TRIES + 1)])]
MixPilotOf(pilot, seed) ==
    IF pilot <= MAX_PILOT_TRIES /\ \E n \in 0..(SeedPeriod - 1) : SeedTable[n] = seed
    THEN LET n == CHOOSE n \in 0..(SeedPeriod - 1) : SeedTable[n] = seed
         IN  MixTable[n * (MAX_PILOT_TRIES + 1) + pilot]
    ELSE gen_mix_pilot(pilot, seed)

\* a variant of slot_for that reduces as the bucket index is reduced
slot_for_fast_reduce(hashes, pilot, seed, slots) ==
    gen_fast_reduce(Xor64(hashes.h2, MixPilotOf(pilot, seed)), slots)

\* hashes.h2 ^ mix_pilot(pilot, seed), reduced to the slots
slot_for(hashes, pilot, seed, slots) ==
    gen_reduce_pow2(Xor64(hashes.h2, MixPilotOf(pilot, seed)), slots)

(***************************************************************************)
(* build_remap_and_map (lines 132-177).  slots_map is a sequence of        *)
(* Option<usize>; the slot with Rust index s is at s + 1.                  *)
(***************************************************************************)
\* lines 134-139: used[slot] for slot < len
UsedOf(slots_map, len) ==
    [i \in 1..len |-> i <= Len(slots_map) /\ is_some(slots_map[i])]

\* a variant of FreeOf that hands out the unused dense indices from the top
RECURSIVE FreeOf_descending(_, _)
FreeOf_descending(used, idx) ==
    IF idx >= Len(used) THEN <<>>
    ELSE FreeOf_descending(used, idx + 1) \o (IF used[idx + 1] THEN <<>> ELSE <<idx>>)

\* lines 141-146: the unused dense indices, ascending
RECURSIVE FreeOf(_, _)
FreeOf(used, idx) ==
    IF idx >= Len(used) THEN <<>>
    ELSE (IF used[idx + 1] THEN <<>> ELSE <<idx>>) \o FreeOf(used, idx + 1)

\* lines 151-157: for slot in len..slots
RECURSIVE RemapLoop(_, _, _, _, _)
RemapLoop(slots_map, len, slot, remap, free) ==
    IF slot >= Len(slots_map) THEN remap
    ELSE IF is_some(slots_map[slot + 1]) /\ free # <<>>
         THEN RemapLoop(slots_map, len, slot + 1,
                        [remap EXCEPT ![slot - len + 1] = Head(free)], Tail(free))
         ELSE RemapLoop(slots_map, len, slot + 1, remap, free)

\* lines 159-169: for (slot, entry) in slots_map
RECURSIVE MapLoop(_, _, _, _, _)
MapLoop(slots_map, len, remap, slot, map) ==
    IF slot >= Len(slots_map) THEN map
    ELSE IF is_some(slots_map[slot + 1])
         THEN LET index == IF slot < len THEN slot ELSE remap[slot - len + 1]
              IN  MapLoop(slots_map, len, remap, slot + 1,
                          [map EXCEPT ![index + 1] = Some(unwrap(slots_map[slot + 1]))])
         ELSE MapLoop(slots_map, len, remap, slot + 1, map)

\* remap, and map as Option<usize> per dense slot before line 171 unwraps it
build_remap_and_map(slots_map, len) ==
    LET slots == Len(slots_map)
        free == FreeOf(UsedOf(slots_map, len), 0)
        remap0 == [i \in 1..Max(slots - len, 0) |-> 0]
        remap == RemapLoop(slots_map, len, len, remap0, free)
        map == MapLoop(slots_map, len, remap, 0, [i \in 1..len |-> None])
    IN  [remap |-> remap, map |-> map]

(***************************************************************************)
(* try_generate, lines 59-83: hashing, bucketing, bucket order.            *)
(***************************************************************************)
\* lines 68-73: the entries of each bucket, in input order (0-based indices)
RECURSIVE BucketKeys(_, _, _, _)
BucketKeys(hashes, buckets, b, idx) ==
    IF idx >= Len(hashes) THEN <<>>
    ELSE (IF gen_fast_reduce(hashes[idx + 1].h1, buckets) = b THEN <<idx>> ELSE <<>>)
         \o BucketKeys(hashes, buckets, b, idx + 1)

\* slice::sort_by_key is a stable sort: ascending key, equal keys in their
\* former order (here ascending bucket index)
RECURSIVE SortByKey(_, _)
SortByKey(S, key) ==
    IF S = {} THEN <<>>
    ELSE LET m == CHOOSE b \in S :
                    \A c \in S : key[b + 1] < key[c + 1]
                                 \/ (key[b + 1] = key[c + 1] /\ b <= c)
         IN  <<m>> \o SortByKey(S \ {m}, key)

Reverse(s) == [i \in 1..Len(s) |-> s[Len(s) + 1 - i]]

\* a variant of BucketOrder without the reverse of line 77
BucketOrder_no_reverse(buckets_vec) ==
    SortByKey(0..(Len(buckets_vec) - 1),
              [b \in 1..Len(buckets_vec) |-> Len(buckets_vec[b])])

\* lines 75-77
BucketOrder(buckets_vec) ==
    Reverse(SortByKey(0..(Len(buckets_vec) - 1),
                      [b \in 1..Len(buckets_vec) |-> Len(buckets_vec[b])]))

\* the locals of try_generate when the bucket loop is entered (line 85)
TryGenerateEnter(es, seed) ==
    LET len == Len(es)
        buckets == bucket_count(len)
        slots == slot_count(len)
        hashes == [i \in 1..len |-> hash(es[i], seed)]
        buckets_vec == [b \in 1..buckets |-> BucketKeys(hashes, buckets, b - 1, 0)]
    IN  [seed |-> seed, buckets |-> buckets, slots |-> slots,
         hashes |-> hashes, buckets_vec |-> buckets_vec,
         bucket_order |-> BucketOrder(buckets_vec), pos |-> 1, pilot |-> 0,
         pilots |-> [b \in 1..buckets |-> 0],
         slots_map |-> [s \in 1..slots |-> None],
         try_map |-> [s \in 1..slots |-> 0],
         generation |-> 0]

\* no call of try_generate is active
NoFrame ==
    [seed |-> FromNat(0, 8), buckets |-> 0, slots |-> 0, hashes |-> <<>>,
     buckets_vec |-> <<>>, bucket_order |-> <<>>, pos |-> 0, pilot |-> 0,
     pilots |-> <<>>, slots_map |-> <<>>, try_map |-> <<>>, generation |-> 0]

\* a variant of KeyLoop that does not look at slots_map
RECURSIVE KeyLoop_ignores_occupied(_, _, _, _, _, _)
KeyLoop_ignores_occupied(t, keys, i, generation, try_map, values_to_add) ==
    IF i > Len(keys)
    THEN [failed |-> FALSE, try_map |-> try_map, values_to_add |-> values_to_add]
    ELSE LET key_idx == keys[i]
             slot == slot_for(t.hashes[key_idx + 1], t.pilot % 65536, t.seed, t.slots)
         IN  IF try_map[slot + 1] = generation
             THEN [failed |-> TRUE, try_map |-> try_map,
                   values_to_add |-> values_to_add]
             ELSE KeyLoop_ignores_occupied(t, keys, i + 1, generation,
                          [try_map EXCEPT ![slot + 1] = generation],
                          Append(values_to_add, <<slot, key_idx>>))

\* lines 96-104: the keys of the bucket under one pilot, up to the first
\* collision.  pilot is cast to u16 (pilot as u16).
RECURSIVE KeyLoop(_, _, _, _, _, _)
KeyLoop(t, keys, i, generation, try_map, values_to_add) ==
    IF i > Len(keys)
    THEN [failed |-> FALSE, try_map |-> try_map, values_to_add |-> values_to_add]
    ELSE LET key_idx == keys[i]
             slot == slot_for(t.hashes[key_idx + 1], t.pilot % 65536, t.seed, t.slots)
         IN  IF is_some(t.slots_map[slot + 1]) \/ try_map[slot + 1] = generation
             THEN [failed |-> TRUE, try_map |-> try_map,
                   values_to_add |-> values_to_add]
             ELSE KeyLoop(t, keys, i + 1, generation,
                          [try_map EXCEPT ![slot + 1] = generation],
                          Append(values_to_add, <<slot, key_idx>>))

\* lines 111-113
RECURSIVE Commit(_, _, _)
Commit(slots_map, values_to_add, i) ==
    IF i > Len(values_to_add) THEN slots_map
    ELSE Commit([slots_map EXCEPT ![values_to_add[i][1] + 1] = Some(values_to_add[i][2])],
                values_to_add, i + 1)

(***************************************************************************)
(* State.                                                                  *)
(***************************************************************************)
VARIABLES
    pc,         \* where the call of generate_hash stands:
                \*   "idle"     not called yet
                \*   "seeds"    in the seed loop (line 50), about to draw a seed
                \*   "buckets"  in try_generate, at the head of the bucket loop (line 85)
                \*   "pilots"   in try_generate, at the head of the pilot loop (line 91)
                \*   "done"     returned a HashState
                \*   "panic"    the process panicked
                \*   "built"    build() of a builder returned
    entries,    \* the slice handed to generate_hash
    rng,        \* the seed generator of the call
    tg,         \* the locals of the active call of try_generate
    result,     \* Option<HashState>: what generate_hash returned
    calls,      \* how many times generate_hash has been called
    panic_msg,  \* the message of the panic, when pc = "panic"
    first,      \* Option<[state, rng]>: what an earlier call on the same slice
                \* returned, and the generator it left behind
    builder,    \* the phf_codegen builder: its kind and its keys
    display,    \* Option: the Display adapter build() returned
    emitted,    \* Option: what fmt of the Display adapter wrote
    remap_call  \* Option: a call of build_remap_and_map on its own

vars == <<pc, entries, rng, tg, result, calls, panic_msg, first, builder, display,
          emitted, remap_call>>

\* what the solver's steps leave alone
caller == <<calls, first, builder, display, emitted, remap_call>>

KeyVals == 1..MaxKey

\* the elements of a set of keys in increasing order
RECURSIVE Ascending(_)
Ascending(S) ==
    IF S = {} THEN <<>>
    ELSE LET m == CHOOSE x \in S : \A y \in S : x <= y
         IN  <<m>> \o Ascending(S \ {m})

\* The slices of distinct keys the solver is called on: every set of at most
\* MaxN keys, in increasing and in decreasing order.  (The solver sees a key
\* only through its hashes, which are in no order in either case.)
DistinctSlices ==
    UNION {{Ascending(S), Reverse(Ascending(S))} :
              S \in {T \in SUBSET KeyVals : Cardinality(T) <= MaxN}}

\* no panic has happened
NoPanic == [text |-> "", key |-> 0]
\* no builder has been constructed
NoBuilder == [kind |-> "none", keys |-> <<>>]

EmptyState ==
    [key |-> FromNat(0, 8), buckets |-> 0, slots |-> 0,
     pilots |-> <<>>, remap |-> <<>>, map |-> <<>>]

Init ==
    /\ pc = "idle"
    /\ entries = <<>>
    /\ rng = NoRng
    /\ tg = NoFrame
    /\ result = None
    /\ calls = 0
    /\ panic_msg = NoPanic
    /\ first = None
    /\ builder = NoBuilder
    /\ display = None
    /\ emitted = None
    /\ remap_call = None


\* a variant of GenerateHash without the early return for the empty slice
GenerateHash_no_empty_case(es) ==
    /\ entries' = es
    /\ calls' = calls + 1
    /\ panic_msg' = NoPanic
    /\ tg' = NoFrame
    /\ result' = None
    /\ rng' = RngWithSeed(FIXED_SEED)
    /\ pc' = "seeds"

\* a variant of GenerateHash in which the calls share one generator
GenerateHash_shared_rng(es) ==
    /\ entries' = es
    /\ calls' = calls + 1
    /\ panic_msg' = NoPanic
    /\ tg' = NoFrame
    /\ IF es = <<>>
       THEN /\ result' = Some(EmptyState)
            /\ rng' = NoRng
            /\ pc' = "done"
       ELSE /\ result' = None
            /\ rng' = IF rng = NoRng THEN RngWithSeed(FIXED_SEED) ELSE rng
            /\ pc' = "seeds"
\* lines 34-49: generate_ptrhash_with_hashes up to the seed loop
GenerateHash(es) ==
    /\ entries' = es
    /\ calls' = calls + 1
    /\ panic_msg' = NoPanic
    /\ tg' = NoFrame
    /\ IF es = <<>>
       THEN /\ result' = Some(EmptyState)
            /\ rng' = NoRng
            /\ pc' = "done"
       ELSE /\ result' = None
            /\ rng' = RngWithSeed(FIXED_SEED)
            /\ pc' = "seeds"

\* lines 50-51 and 59-83: the next seed is drawn and try_generate is entered
DrawSeed ==
    /\ pc = "seeds"
    /\ rng' = RngAdvance(rng)
    /\ tg' = TryGenerateEnter(entries, RngU64(rng))
    /\ pc' = "buckets"
    /\ UNCHANGED <<entries, result, panic_msg, caller>>

\* lines 85-90 and 120-129: the head of the bucket loop
NextBucket ==
    /\ pc = "buckets"
    /\ IF tg.pos > Len(tg.bucket_order)
       THEN \E rm \in {build_remap_and_map(tg.slots_map, Len(entries))} :
                IF \A i \in 1..Len(rm.map) : is_some(rm.map[i])
                THEN /\ result' = Some([key |-> tg.seed, buckets |-> tg.buckets,
                                        slots |-> tg.slots, pilots |-> tg.pilots,
                                        remap |-> rm.remap,
                                        map |-> [i \in 1..Len(rm.map) |-> unwrap(rm.map[i])]])
                     /\ pc' = "done"
                     /\ tg' = NoFrame
                     /\ panic_msg' = panic_msg
                ELSE \* line 173: expect("failed to populate ptrhash map")
                     /\ result' = result
                     /\ pc' = "panic"
                     /\ tg' = NoFrame
                     /\ panic_msg' = [text |-> "failed to populate ptrhash map",
                                      key |-> 0]
       ELSE /\ result' = result
            /\ panic_msg' = panic_msg
            /\ IF tg.buckets_vec[tg.bucket_order[tg.pos] + 1] = <<>>
               THEN /\ tg' = [tg EXCEPT !.pos = @ + 1]
                    /\ pc' = "buckets"
               ELSE /\ tg' = [tg EXCEPT !.pilot = 0]
                    /\ pc' = "pilots"
    /\ UNCHANGED <<entries, rng, caller>>

\* lines 91-117: one pilot of the current bucket
TryPilot ==
    /\ pc = "pilots"
    /\ \E trial \in {KeyLoop(tg, tg.buckets_vec[tg.bucket_order[tg.pos] + 1], 1,
                             tg.generation + 1, tg.try_map, <<>>)} :
         LET bucket == tg.bucket_order[tg.pos]
             keys == tg.buckets_vec[bucket + 1]
             \* generation.wrapping_add(1): far below 2^64 in one call
             generation == tg.generation + 1
         IN  IF trial.failed \/ Len(trial.values_to_add) # Len(keys)
             THEN IF tg.pilot = MAX_PILOT_TRIES
                  THEN \* line 117: return None, back to the seed loop
                       /\ tg' = NoFrame
                       /\ pc' = "seeds"
                  ELSE /\ tg' = [tg EXCEPT !.generation = generation,
                                           !.try_map = trial.try_map,
                                           !.pilot = @ + 1]
                       /\ pc' = "pilots"
             ELSE /\ tg' = [tg EXCEPT !.generation = generation,
                                      !.try_map = trial.try_map,
                                      !.pilots[bucket + 1] = tg.pilot % 65536,
                                      !.slots_map = Commit(@, trial.values_to_add, 1),
                                      !.pos = @ + 1]
                  /\ pc' = "buckets"
    /\ UNCHANGED <<entries, rng, result, panic_msg, caller>>

\* generate_hash is called on a slice of distinct keys
Call ==
    /\ pc = "idle"
    /\ builder = NoBuilder
    /\ \E es \in DistinctSlices : GenerateHash(es)
    /\ UNCHANGED <<first, builder, display, emitted, remap_call>>

\* generate_hash has returned and is called once more on the same slice
Rerun ==
    /\ pc = "done"
    /\ builder = NoBuilder
    /\ first = None
    /\ first' = Some([state |-> unwrap(result), rng |-> rng])
    /\ GenerateHash(entries)
    /\ UNCHANGED <<builder, display, emitted, remap_call>>

Next == Call \/ DrawSeed \/ NextBucket \/ TryPilot \/ Rerun

Spec == Init /\ [][Next]_vars

(***************************************************************************)
(* phf_codegen/src/lib.rs: the builders.  Set and OrderedSet hold a Map    *)
(* and an OrderedMap and hand entry and build on to them.                  *)
(***************************************************************************)
Kinds == {"Map", "Set", "OrderedMap", "OrderedSet"}
BuildKeys == 1..MaxBuildKey

\* a variant of InsertLoop that compares a key with the one before it only
RECURSIVE InsertLoop_adjacent(_, _, _)
InsertLoop_adjacent(keys, i, set) ==
    IF i > Len(keys) THEN None
    ELSE IF i > 1 /\ keys[i] = keys[i - 1] THEN Some(keys[i])
    ELSE InsertLoop_adjacent(keys, i + 1, set)

\* lines 207-212 and 382-387: the keys are inserted into a HashSet in order;
\* Some(key) for the first key whose insert finds it present, None if none
RECURSIVE InsertLoop(_, _, _)
InsertLoop(keys, i, set) ==
    IF i > Len(keys) THEN None
    ELSE IF keys[i] \in set THEN Some(keys[i])
    ELSE InsertLoop(keys, i + 1, set \cup {keys[i]})

\* Map::new, Set::new, OrderedMap::new, OrderedSet::new
New ==
    /\ pc = "idle"
    /\ builder = NoBuilder
    /\ \E kind \in Kinds : builder' = [kind |-> kind, keys |-> <<>>]
    /\ UNCHANGED <<pc, entries, rng, tg, result, calls, panic_msg, first, display, emitted, remap_call>>

\* Map::entry, OrderedMap::entry (and Set::entry, OrderedSet::entry through
\* them): the key is pushed
Entry ==
    /\ pc = "idle"
    /\ builder # NoBuilder
    /\ Len(builder.keys) < MaxEntries
    /\ \E key \in BuildKeys : builder' = [builder EXCEPT !.keys = Append(@, key)]
    /\ UNCHANGED <<pc, entries, rng, tg, result, calls, panic_msg, first, display, emitted, remap_call>>

\* build() up to its call of the solver: the duplicate check, then
\* phf_generator::generate_hash(&self.keys)
BuildEnter(keys) ==
    LET dup == InsertLoop(keys, 1, {})
    IN  IF is_some(dup)
        THEN /\ pc' = "panic"
             /\ panic_msg' = [text |-> "duplicate key", key |-> unwrap(dup)]
             /\ UNCHANGED <<entries, rng, tg, result, calls>>
        ELSE GenerateHash(keys)

\* Map::build (lines 206-213), also reached through Set::build
MapBuild ==
    /\ pc = "idle"
    /\ builder.kind \in {"Map", "Set"}
    /\ BuildEnter(builder.keys)
    /\ UNCHANGED <<first, builder, display, emitted, remap_call>>

\* OrderedMap::build (lines 381-388), also reached through OrderedSet::build
OrderedMapBuild ==
    /\ pc = "idle"
    /\ builder.kind \in {"OrderedMap", "OrderedSet"}
    /\ BuildEnter(builder.keys)
    /\ UNCHANGED <<first, builder, display, emitted, remap_call>>

\* lines 214-221 and 389-396: the solver has returned, build returns the
\* Display adapter
BuildReturn ==
    /\ pc = "done"
    /\ builder # NoBuilder
    /\ display' = Some([kind |-> builder.kind, state |-> unwrap(result),
                        keys |-> builder.keys])
    /\ pc' = "built"
    /\ UNCHANGED <<entries, rng, tg, result, calls, panic_msg, first, builder, emitted, remap_call>>

\* DisplayMap::fmt, lines 261-270: the entries, one per element idx of
\* state.map, each the key (and value) at input position idx.  (The loop of
\* lines 245-252 reads state.disps, a field of the other solver's HashState;
\* the state of this solver has none.)
EmitMap(d) ==
    [kind |-> d.kind, key |-> d.state.key,
     entries |-> [i \in 1..Len(d.state.map) |-> d.keys[d.state.map[i] + 1]]]

\* a variant of EmitOrderedMap that writes the entries as EmitMap does
EmitOrderedMap_as_map(d) ==
    [kind |-> d.kind, key |-> d.state.key, idxs |-> d.state.map,
     entries |-> [i \in 1..Len(d.state.map) |-> d.keys[d.state.map[i] + 1]]]

\* DisplayOrderedMap::fmt, lines 431-453: idxs is state.map, element by
\* element; the entries are the keys (zipped with the values) in the order
\* they were entered
EmitOrderedMap(d) ==
    [kind |-> d.kind, key |-> d.state.key, idxs |-> d.state.map,
     entries |-> d.keys]

\* fmt of DisplayMap, also reached through DisplaySet
MapFmt ==
    /\ pc = "built"
    /\ emitted = None
    /\ builder.kind \in {"Map", "Set"}
    /\ emitted' = Some(EmitMap(unwrap(display)))
    /\ UNCHANGED <<pc, entries, rng, tg, result, calls, panic_msg, first, builder,
                   display, remap_call>>

\* fmt of DisplayOrderedMap, also reached through DisplayOrderedSet
OrderedMapFmt ==
    /\ pc = "built"
    /\ emitted = None
    /\ builder.kind \in {"OrderedMap", "OrderedSet"}
    /\ emitted' = Some(EmitOrderedMap(unwrap(display)))
    /\ UNCHANGED <<pc, entries, rng, tg, result, calls, panic_msg, first, builder,
                   display, remap_call>>

NextBuild ==
    \/ New \/ Entry \/ MapBuild \/ OrderedMapBuild \/ BuildReturn
    \/ MapFmt \/ OrderedMapFmt
    \/ DrawSeed \/ NextBucket \/ TryPilot

SpecBuild == Init /\ [][NextBuild]_vars

(***************************************************************************)
(* generate_hash called directly on any slice, repeated keys included; the *)
(* process keeps running while it has a step to take.                      *)
(***************************************************************************)
AnySlices == UNION {[1..n -> 1..MaxDirectKey] : n \in 0..MaxDirectN}

CallAny ==
    /\ pc = "idle"
    /\ builder = NoBuilder
    /\ \E es \in AnySlices : GenerateHash(es)
    /\ UNCHANGED <<first, builder, display, emitted, remap_call>>

NextAny == CallAny \/ DrawSeed \/ NextBucket \/ TryPilot

FairSpec == Init /\ [][NextAny]_vars /\ WF_vars(NextAny)

(***************************************************************************)
(* The solver alone, on slices of one bucket (at most DEFAULT_BUCKET_SIZE   *)
(* keys) and on longer ones, long enough for two buckets of two keys.      *)
(***************************************************************************)
SortedSlices ==
    {Ascending(S) : S \in
        {T \in SUBSET (1..MaxOneBucketKey) : Cardinality(T) <= DEFAULT_BUCKET_SIZE}
        \cup {T \in SUBSET (1..MaxSolveKey) :
                 Cardinality(T) \in (DEFAULT_BUCKET_SIZE + 1)..MaxSolveN}}

CallSorted ==
    /\ pc = "idle"
    /\ builder = NoBuilder
    /\ \E es \in SortedSlices : GenerateHash(es)
    /\ UNCHANGED <<first, builder, display, emitted, remap_call>>

NextSolve == CallSorted \/ DrawSeed \/ NextBucket \/ TryPilot

SpecSolve == Init /\ [][NextSolve]_vars

(***************************************************************************)
(* build_remap_and_map on its own: every slots_map of up to MaxSlots slots *)
(* in which each of the len input indices sits in exactly one slot.        *)
(***************************************************************************)
\* the slots_map that holds input index i - 1 in slot p[i] - 1, for an
\* injection p of the input indices into the slots
SlotsMapOf(slots, len, p) ==
    [s \in 1..slots |->
        IF \E i \in 1..len : p[i] = s
        THEN Some((CHOOSE i \in 1..len : p[i] = s) - 1)
        ELSE None]

Injections(len, slots) ==
    {p \in [1..len -> 1..slots] : \A i, j \in 1..len : p[i] = p[j] => i = j}

RemapInputs ==
    UNION {UNION {{[slots_map |-> SlotsMapOf(slots, len, p), len |-> len,
                    ret |-> None] : p \in Injections(len, slots)} :
                  len \in 0..slots} : slots \in 0..MaxSlots}

InitRemap ==
    /\ pc = "idle"
    /\ entries = <<>>
    /\ rng = NoRng
    /\ tg = NoFrame
    /\ result = None
    /\ calls = 0
    /\ panic_msg = NoPanic
    /\ first = None
    /\ builder = NoBuilder
    /\ display = None
    /\ emitted = None
    /\ remap_call \in {Some(c) : c \in RemapInputs}

\* lines 132-177, with the expect of lines 171-174: the call returns
\* (remap, map), or panics when a dense slot was left unwritten
RemapReturn(slots_map, len) ==
    LET out == build_remap_and_map(slots_map, len)
    IN  IF \E d \in 1..len : out.map[d] = None
        THEN [panicked |-> TRUE, remap |-> out.remap, map |-> out.map]
        ELSE [panicked |-> FALSE, remap |-> out.remap, map |-> out.map]

BuildRemapAndMap ==
    /\ remap_call # None
    /\ unwrap(remap_call).ret = None
    /\ remap_call' = Some([unwrap(remap_call) EXCEPT
                     !.ret = Some(RemapReturn(unwrap(remap_call).slots_map, unwrap(remap_call).len))])
    /\ UNCHANGED <<pc, entries, rng, tg, result, calls, panic_msg, first, builder,
                   display, emitted>>

NextRemap == BuildRemapAndMap

SpecRemap == InitRemap /\ [][NextRemap]_vars

(***************************************************************************)
(* What a caller sees of a returned HashState.                             *)
(***************************************************************************)
Returned == pc = "done"
St == unwrap(result)
N == Len(entries)

\* the lookup of the runtime on the hashes q, against the returned state
Lookup(q) ==
    get_index(q, St.key, St.buckets, St.slots, St.pilots, St.remap, N)

\* the slot the lookup reaches before the remap table is consulted
ProbeSlot(q) ==
    reduce_pow2(Xor64(q.h2, mix_pilot(St.pilots[fast_reduce(q.h1, St.buckets) + 1],
                                      St.key)),
                St.slots)

\* Query hashes: those of every key of the model and of two keys outside it,
\* and the four extreme pairs.
Zero64 == FromNat(0, 8)
Ones64 == <<255, 255, 255, 255, 255, 255, 255, 255>>
QueryHashes(key) ==
    {hash(x, key) : x \in 0..(MaxKey + 1)}
        \cup {[h1 |-> a, h2 |-> b] : a \in {Zero64, Ones64}, b \in {Zero64, Ones64}}

(***************************************************************************)
(* C1.  Perfect mapping: when generate_hash has returned a state for a     *)
(* slice of N >= 1 distinct keys, the lookup of the key at every input     *)
(* position i is a dense index at which map holds i.                       *)
(***************************************************************************)
C1_PerfectMapping ==
    (Returned /\ N >= 1) =>
        \A i \in 1..N :
            LET idx == Lookup(hash(entries[i], St.key))
            IN  /\ idx \in 0..(N - 1)
                /\ St.map[idx + 1] = i - 1

\* a returned state of three or more keys in which some pilot is not 0, some
\* key is reached through remap and map is not the identity
C1_Witness ==
    /\ Returned
    /\ N >= 3
    /\ \E b \in 1..Len(St.pilots) : St.pilots[b] > 0
    /\ \E i \in 1..N : ProbeSlot(hash(entries[i], St.key)) >= N
    /\ \E i \in 1..N : St.map[i] # i - 1

(***************************************************************************)
(* C2.  Injectivity: in a returned state no two input positions look up    *)
(* to the same index.                                                      *)
(***************************************************************************)
C2_Injectivity ==
    Returned =>
        \A i, j \in 1..N :
            i # j => Lookup(hash(entries[i], St.key)) # Lookup(hash(entries[j], St.key))

\* a returned state in which two keys share a bucket, hence a pilot
C2_Witness ==
    /\ Returned
    /\ \E i, j \in 1..N :
         /\ i # j
         /\ fast_reduce(hash(entries[i], St.key).h1, St.buckets)
              = fast_reduce(hash(entries[j], St.key).h1, St.buckets)
         /\ ProbeSlot(hash(entries[i], St.key)) >= N

(***************************************************************************)
(* C3.  Lookup is total and in range.  As stated, for a state returned for *)
(* any number N of keys, every query returns an index in [0, N) and reads  *)
(* pilots and remap inside their bounds.                                   *)
(***************************************************************************)
C3_LookupInRangeAsStated ==
    Returned => \A q \in QueryHashes(St.key) : Lookup(q) \in 0..(N - 1)

\* C3 as the code has it: the above for N >= 1; for N = 0 there is no index
\* in [0, N) and the lookup returns 0.
C3_LookupInRange ==
    /\ (Returned /\ N >= 1) => \A q \in QueryHashes(St.key) : Lookup(q) \in 0..(N - 1)
    /\ (Returned /\ N = 0) => \A q \in QueryHashes(St.key) : Lookup(q) = 0

\* a query of a key outside the input that probes a slot no input key holds,
\* past the dense range
C3_Witness ==
    /\ Returned
    /\ N >= 2
    /\ \E x \in 0..(MaxKey + 1) :
         /\ \A i \in 1..N : entries[i] # x
         /\ ProbeSlot(hash(x, St.key)) >= N
         /\ \A i \in 1..N :
              ProbeSlot(hash(entries[i], St.key)) # ProbeSlot(hash(x, St.key))

(***************************************************************************)
(* C4.  Parameter bounds: a state returned for N >= 1 keys has             *)
(* buckets = max(1, ceil(N / 3)),                                          *)
(* slots = the least power of two >= max(N, ceil(N / 0.85)),               *)
(* |pilots| = buckets, |remap| = max(0, slots - N), |map| = N.             *)
(***************************************************************************)
\* ceil(a / b) for naturals a, b > 0
CeilOfRatio(a, b) == CHOOSE q \in 0..a : q * b >= a /\ (q - 1) * b < a
\* the least power of two >= n, for n >= 1
LeastPow2(n) == CHOOSE p \in {Pow2(k) : k \in 0..n} : p >= n /\ (p = 1 \/ p \div 2 < n)

\* C4: the parameters of a state returned for N >= 1 keys are those of the
\* formulas above
C4_ParameterBounds ==
    (Returned /\ N >= 1) =>
        /\ St.buckets = Max(1, CeilOfRatio(N, 3))
        \* N / 0.85 = 20 N / 17
        /\ St.slots = LeastPow2(Max(N, CeilOfRatio(20 * N, 17)))
        /\ Len(St.pilots) = St.buckets
        /\ Len(St.remap) = Max(0, St.slots - N)
        /\ Len(St.map) = N

\* a returned state for four keys: two buckets, eight slots
C4_Witness ==
    /\ Returned
    /\ N = 4
    /\ Len(St.pilots) = 2
    /\ Len(St.remap) = 4

(***************************************************************************)
(* C5.  Empty input: generate_hash on no keys returns, with no seed drawn  *)
(* (no generator is even built), the state with key = 0, buckets = 0,      *)
(* slots = 0 and empty pilots, remap and map; every lookup on it yields 0. *)
(***************************************************************************)
C5_EmptyInput ==
    (entries = <<>> /\ pc # "idle") =>
        /\ Returned
        /\ rng = NoRng
        /\ St.key = Zero64
        /\ St.buckets = 0
        /\ St.slots = 0
        /\ St.pilots = <<>> /\ St.remap = <<>> /\ St.map = <<>>
        /\ \A q \in QueryHashes(St.key) : Lookup(q) = 0

\* generate_hash has been called on the empty slice, twice
C5_Witness ==
    /\ entries = <<>>
    /\ Returned
    /\ first # None

(***************************************************************************)
(* C6.  Determinism: the seed loop runs only while nothing has been        *)
(* returned; the state returned carries the seed drawn last; and a second  *)
(* call on the same slice draws as many seeds as the first and returns the *)
(* same HashState.                                                         *)
(***************************************************************************)
\* the seed the generator r yielded last
LastDrawn(r) == SeedTable[(r.n + SeedPeriod - 1) % SeedPeriod]

\* C6: one seed sequence, return at the first success, equal results of two
\* calls on the same slice
C6_Determinism ==
    /\ pc \in {"seeds", "buckets", "pilots"} => result = None
    /\ pc \in {"buckets", "pilots"} => tg.seed = LastDrawn(rng)
    /\ (Returned /\ N >= 1) => (rng.seed = FIXED_SEED /\ St.key = LastDrawn(rng))
    /\ (Returned /\ first # None) =>
          /\ St = unwrap(first).state
          /\ rng = unwrap(first).rng

\* a second call has returned, after the first seed failed and the second
\* succeeded
C6_Witness ==
    /\ Returned
    /\ first # None
    /\ N >= 2
    /\ St.key = SeedTable[1]

(***************************************************************************)
(* C7.  Scenario E4, a single key.  As stated: buckets = 1, slots = 1,     *)
(* one pilot, an empty remap, map = [0], and the key looks up to 0.        *)
(***************************************************************************)
C7_SingleKeyAsStated ==
    (Returned /\ N = 1) =>
        /\ St.buckets = 1
        /\ St.slots = 1
        /\ Len(St.pilots) = 1
        /\ St.remap = <<>>
        /\ St.map = <<0>>
        /\ Lookup(hash(entries[1], St.key)) = 0

\* C7 as the code has it: ceil(1 / 0.85) = 2, so there are two slots and
\* remap has one element, 0 (the only dense index).
C7_SingleKey ==
    (Returned /\ N = 1) =>
        /\ St.buckets = 1
        /\ St.slots = 2
        /\ Len(St.pilots) = 1
        /\ St.remap = <<0>>
        /\ St.map = <<0>>
        /\ Lookup(hash(entries[1], St.key)) = 0

\* a single key placed in the upper slot, which remap folds back to 0
C7_Witness ==
    /\ Returned
    /\ N = 1
    /\ ProbeSlot(hash(entries[1], St.key)) = 1

(***************************************************************************)
(* C8.  Pilot bound: every pilot of a returned state is at most            *)
(* MAX_PILOT = 8191, and the pilot search of a bucket tries no value       *)
(* beyond 8191.                                                            *)
(***************************************************************************)
MAX_PILOT == MAX_PILOT_TRIES - 1

\* C8: no pilot stored or tried exceeds MAX_PILOT
C8_PilotBound ==
    /\ Returned => \A b \in 1..Len(St.pilots) : St.pilots[b] <= MAX_PILOT
    /\ pc = "pilots" => tg.pilot <= MAX_PILOT

(***************************************************************************)
(* C9.  Duplicate rejection: once build() of any of the four builders has  *)
(* been called, if two of the entered keys are equal the process has       *)
(* panicked with "duplicate key", naming a key entered twice (the first    *)
(* that repeats an earlier one), and generate_hash has not been called;    *)
(* if the keys are distinct there is no such panic and generate_hash has   *)
(* been called exactly once, on the entered keys.                          *)
(***************************************************************************)
HasDuplicate(keys) ==
    \E i, j \in 1..Len(keys) : i < j /\ keys[i] = keys[j]

\* the position that first repeats an earlier one
FirstRepeat(keys) ==
    CHOOSE j \in 1..Len(keys) :
        /\ \E i \in 1..(j - 1) : keys[i] = keys[j]
        /\ \A k \in 1..(j - 1) : \A i \in 1..(k - 1) : keys[i] # keys[k]

\* C9: equal keys are rejected before the solver is called; distinct keys
\* reach it exactly once
C9_DuplicateRejection ==
    (builder # NoBuilder /\ pc # "idle") =>
        IF HasDuplicate(builder.keys)
        THEN /\ pc = "panic"
             /\ panic_msg = [text |-> "duplicate key",
                             key |-> builder.keys[FirstRepeat(builder.keys)]]
             /\ calls = 0
        ELSE /\ panic_msg.text # "duplicate key"
             /\ calls = 1
             /\ entries = builder.keys

\* scenario E5: the keys a, b, a entered into a Set; the panic names a
C9_Witness ==
    /\ builder = [kind |-> "Set", keys |-> <<1, 2, 1>>]
    /\ pc = "panic"
    /\ panic_msg.key = 1

(***************************************************************************)
(* C10.  Unrecoverable failure: when generate_hash is called on a slice    *)
(* on which no seed can succeed (two equal entries, whose hashes agree     *)
(* under every seed), the process eventually panics.                       *)
(***************************************************************************)
C10_EventuallyAborts ==
    (pc = "seeds" /\ HasDuplicate(entries)) ~> (pc = "panic")

(***************************************************************************)
(* C11.  OrderedMap emission.  As stated: the emitted entries are in       *)
(* insertion order, and idxs[i] is the dense slot the lookup gives the     *)
(* i-th inserted key.                                                      *)
(***************************************************************************)
\* an ordered map has been written
OrderedEmitted ==
    emitted # None /\ builder.kind \in {"OrderedMap", "OrderedSet"}
\* the dense slot of the i-th inserted key, by the lookup of the runtime
DenseSlot(d, i) ==
    get_index(hash(d.keys[i], d.state.key), d.state.key, d.state.buckets,
              d.state.slots, d.state.pilots, d.state.remap, Len(d.keys))

\* C11 as stated: idxs maps insertion position to dense slot
C11_OrderedEmissionAsStated ==
    OrderedEmitted =>
        LET e == unwrap(emitted)
            d == unwrap(display)
        IN  /\ e.entries = builder.keys
            /\ Len(e.idxs) = Len(builder.keys)
            /\ \A i \in 1..Len(builder.keys) : e.idxs[i] = DenseSlot(d, i)

\* C11 as the code has it: idxs is the solver's map, from dense slot to
\* insertion position: idxs[dense slot of the i-th key] = i
C11_OrderedEmission ==
    OrderedEmitted =>
        LET e == unwrap(emitted)
            d == unwrap(display)
        IN  /\ e.entries = builder.keys
            /\ Len(e.idxs) = Len(builder.keys)
            /\ \A i \in 1..Len(builder.keys) :
                 /\ DenseSlot(d, i) \in 0..(Len(builder.keys) - 1)
                 /\ e.idxs[DenseSlot(d, i) + 1] = i - 1

\* three keys written with an idxs that is not its own inverse, the case in
\* which the two readings of idxs differ
C11_Witness ==
    /\ OrderedEmitted
    /\ Len(builder.keys) = 3
    /\ \E i \in 1..3 : unwrap(emitted).idxs[unwrap(emitted).idxs[i] + 1] # i - 1

(***************************************************************************)
(* C12.  Remap construction.  For a slots_map of S slots holding each of   *)
(* the N input indices once: the k-th assigned overflow slot (ascending)   *)
(* is remapped to the k-th unassigned dense slot (ascending), unassigned   *)
(* overflow slots keep remap 0, the free dense slots never run out, every  *)
(* map[d] is written (no "failed to populate ptrhash map"), and map is a   *)
(* permutation of 0..N-1.                                                  *)
(***************************************************************************)
\* the assigned overflow slots and the unassigned dense slots of a slots_map
AssignedOverflow(slots_map, len) ==
    {s \in len..(Len(slots_map) - 1) : slots_map[s + 1] # None}
UnassignedDense(slots_map, len) ==
    {d \in 0..(len - 1) : slots_map[d + 1] = None}
\* the number of elements of a set of numbers that are below x
RankIn(set, x) == Cardinality({y \in set : y < x})

\* C12: what build_remap_and_map returns for every such slots_map
C12_RemapConstruction ==
    (remap_call # None /\ unwrap(remap_call).ret # None) =>
        LET slots_map == unwrap(remap_call).slots_map
            len == unwrap(remap_call).len
            ret == unwrap(unwrap(remap_call).ret)
            over == AssignedOverflow(slots_map, len)
            free == UnassignedDense(slots_map, len)
        IN  /\ Len(ret.remap) = Len(slots_map) - len
            /\ Cardinality(over) <= Cardinality(free)
            /\ \A s \in over :
                 \E d \in free : /\ RankIn(free, d) = RankIn(over, s)
                                 /\ ret.remap[s - len + 1] = d
            /\ \A s \in len..(Len(slots_map) - 1) :
                 slots_map[s + 1] = None => ret.remap[s - len + 1] = 0
            /\ ~ret.panicked
            /\ Len(ret.map) = len
            /\ \A d \in 1..len : ret.map[d] # None
            /\ \A i \in 0..(len - 1) : \E d \in 1..len : ret.map[d] = Some(i)

\* both input indices in overflow slots, with an unassigned overflow slot
\* between them: remap comes out as <<0, 0, 1>>
C12_Witness ==
    /\ remap_call # None
    /\ unwrap(remap_call).ret # None
    /\ unwrap(remap_call).len = 2
    /\ unwrap(remap_call).slots_map = <<None, None, Some(1), None, Some(0)>>
    /\ unwrap(unwrap(remap_call).ret).remap = <<0, 0, 1>>

(***************************************************************************)
(* C13.  Pilot trial commit.  A pilot is committed for a bucket only if    *)
(* the keys of the bucket land on pairwise distinct slots that no bucket   *)
(* committed before occupies; it is the smallest such pilot in trial       *)
(* order; a failed trial leaves slots_map and pilots as they were; a       *)
(* commit writes only to empty slots, so no assigned slot is overwritten,  *)
(* and after it the assigned slots are as many as the keys of the          *)
(* committed buckets.                                                      *)
(***************************************************************************)
\* the slots the keys of a bucket land on under a pilot
TrialSlots(t, keys, pilot) ==
    [i \in 1..Len(keys) |-> slot_for(t.hashes[keys[i] + 1], pilot, t.seed, t.slots)]
\* they are pairwise distinct and empty in t.slots_map
PilotFits(t, keys, pilot) ==
    \E sl \in {TrialSlots(t, keys, pilot)} :
        /\ \A i, j \in 1..Len(keys) : sl[i] = sl[j] => i = j
        /\ \A i \in 1..Len(keys) : t.slots_map[sl[i] + 1] = None
\* the number of assigned slots; the number of keys in the buckets before pos
AssignedSlots(t) == Cardinality({s \in 1..Len(t.slots_map) : t.slots_map[s] # None})
RECURSIVE CommittedKeys(_, _)
CommittedKeys(t, j) ==
    IF j >= t.pos THEN 0
    ELSE Len(t.buckets_vec[t.bucket_order[j] + 1]) + CommittedKeys(t, j + 1)
\* the bucket the pilot loop works on, and its keys
CurrentBucket == tg.bucket_order[tg.pos]
CurrentKeys == tg.buckets_vec[CurrentBucket + 1]

\* what one pilot trial may do
PilotTrialStep ==
    pc = "pilots" =>
        IF pc' = "buckets"
        THEN \* the trial committed tg.pilot
             /\ PilotFits(tg, CurrentKeys, tg.pilot)
             /\ \A p \in 0..(tg.pilot - 1) : ~PilotFits(tg, CurrentKeys, p)
             /\ tg'.pilots = [tg.pilots EXCEPT ![CurrentBucket + 1] = tg.pilot]
             /\ \A s \in 1..tg.slots :
                  /\ tg.slots_map[s] # None => tg'.slots_map[s] = tg.slots_map[s]
                  /\ tg'.slots_map[s] # tg.slots_map[s] =>
                       \E i \in 1..Len(CurrentKeys) :
                          /\ TrialSlots(tg, CurrentKeys, tg.pilot)[i] = s - 1
                          /\ tg'.slots_map[s] = Some(CurrentKeys[i])
             /\ AssignedSlots(tg') = AssignedSlots(tg) + Len(CurrentKeys)
             /\ AssignedSlots(tg') = CommittedKeys(tg', 1)
        ELSE \* the trial failed
             /\ ~PilotFits(tg, CurrentKeys, tg.pilot)
             /\ pc' = "pilots" =>
                  /\ tg'.slots_map = tg.slots_map
                  /\ tg'.pilots = tg.pilots
                  /\ tg'.pos = tg.pos

\* C13: every step of the pilot loop is such a step, and no step of the
\* bucket loop touches an assigned slot
C13_PilotCommit ==
    [][/\ PilotTrialStep
       /\ (pc \in {"buckets", "pilots"} /\ pc' \in {"buckets", "pilots"}) =>
             \A s \in 1..tg.slots :
                tg.slots_map[s] # None => tg'.slots_map[s] = tg.slots_map[s]]_vars

\* the second bucket of a call, of two keys or more, has just been committed
\* with a pilot that is not the first one tried
C13_Witness ==
    /\ pc = "buckets"
    /\ tg.pos = 3
    /\ Len(tg.buckets_vec[tg.bucket_order[2] + 1]) >= 2
    /\ tg.pilots[tg.bucket_order[2] + 1] > 0
    /\ AssignedSlots(tg) = Len(entries)

(***************************************************************************)
(* C14.  Bucket processing order.  As stated: buckets are processed in     *)
(* non-increasing order of population, and buckets of equal population in  *)
(* ascending order of bucket index.                                        *)
(***************************************************************************)
\* try_generate is in its bucket loop
InBucketLoop == pc \in {"buckets", "pilots"}
\* the population of the bucket processed j-th
PopulationAt(j) == Len(tg.buckets_vec[tg.bucket_order[j] + 1])
\* bucket_order lists every bucket once, and the buckets whose keys sit in
\* slots_map are those before pos: bucket_order is the order of processing
ProcessedInOrder ==
    /\ Len(tg.bucket_order) = tg.buckets
    /\ \A b \in 0..(tg.buckets - 1) : \E j \in 1..tg.buckets : tg.bucket_order[j] = b
    /\ \A j \in 1..tg.buckets :
         \A i \in 1..PopulationAt(j) :
            (\E s \in 1..tg.slots :
                tg.slots_map[s] = Some(tg.buckets_vec[tg.bucket_order[j] + 1][i]))
            <=> j < tg.pos

\* C14 as stated: ties in ascending order of bucket index
C14_BucketOrderAsStated ==
    InBucketLoop =>
        /\ ProcessedInOrder
        /\ \A i, j \in 1..tg.buckets :
             i < j => /\ PopulationAt(i) >= PopulationAt(j)
                      /\ PopulationAt(i) = PopulationAt(j) =>
                            tg.bucket_order[i] < tg.bucket_order[j]

\* C14 as the code has it: the stable ascending sort is reversed as a whole,
\* so buckets of equal population come in descending order of bucket index
C14_BucketOrder ==
    InBucketLoop =>
        /\ ProcessedInOrder
        /\ \A i, j \in 1..tg.buckets :
             i < j => /\ PopulationAt(i) >= PopulationAt(j)
                      /\ PopulationAt(i) = PopulationAt(j) =>
                            tg.bucket_order[i] > tg.bucket_order[j]

\* two buckets of two keys each, the first of them processed
C14_Witness ==
    /\ pc = "buckets"
    /\ tg.buckets = 2
    /\ Len(tg.buckets_vec[1]) = 2
    /\ Len(tg.buckets_vec[2]) = 2
    /\ tg.pos = 2
    /\ tg.slots_map # [s \in 1..tg.slots |-> None]

(***************************************************************************)
(* C15.  Whether two keys of one bucket collide does not depend on the     *)
(* pilot: they collide under a pilot exactly when their h2 agree on the    *)
(* low log2(S) bits.  So a bucket with such a pair fails every pilot trial *)
(* and the seed yields no HashState, and a bucket without one has its keys *)
(* on pairwise distinct slots under every pilot.                           *)
(***************************************************************************)
\* the low log2(slots) bits of h, for slots a power of two up to 256
LowBits(h, slots) == h[1] % slots
\* two keys (input indices) have h2 that agree on those bits
SameLowBits(hashes, slots, a, b) ==
    LowBits(hashes[a + 1].h2, slots) = LowBits(hashes[b + 1].h2, slots)
\* a bucket has two keys whose h2 agree on them
HasCollidingPair(hashes, slots, keys) ==
    \E i, j \in 1..Len(keys) : i < j /\ SameLowBits(hashes, slots, keys[i], keys[j])
\* the hashes and buckets of the entries under the seed of a returned state
ReturnedHashes == [i \in 1..Len(entries) |-> hash(entries[i], unwrap(result).key)]
ReturnedBucket(b) == BucketKeys(ReturnedHashes, unwrap(result).buckets, b, 0)

C15_PilotIndependentCollisions ==
    \* under the pilot on trial, the pairs that collide are those pairs
    /\ pc = "pilots" =>
         \A sl \in {TrialSlots(tg, CurrentKeys, tg.pilot)} :
            \A i, j \in 1..Len(sl) :
               sl[i] = sl[j]
               <=> SameLowBits(tg.hashes, tg.slots, CurrentKeys[i], CurrentKeys[j])
    \* no trial of a bucket with such a pair succeeds: none is ever committed
    /\ InBucketLoop =>
         \A j \in 1..(tg.pos - 1) :
            ~HasCollidingPair(tg.hashes, tg.slots,
                              tg.buckets_vec[tg.bucket_order[j] + 1])
    \* and a seed under which a bucket has such a pair returns no state
    /\ (pc = "done" /\ entries # <<>>) =>
         \A b \in 0..(unwrap(result).buckets - 1) :
            ~HasCollidingPair(ReturnedHashes, unwrap(result).slots, ReturnedBucket(b))

\* the last pilot of a bucket with two keys whose h2 agree on the low bits:
\* every pilot before it has failed
C15_Witness ==
    /\ pc = "pilots"
    /\ tg.pilot = MAX_PILOT_TRIES
    /\ HasCollidingPair(tg.hashes, tg.slots, CurrentKeys)

====
